---- MODULE Spec2Model ----
(***************************************************************************)
(* NaiveRhythm (src/src/main.rs): a text document of key-press timestamps  *)
(* is parsed (parse), quantized onto beat indices (solve) and laid out as  *)
(* the two tracks of a MIDI file (build).                                  *)
(*                                                                         *)
(* Numbers.  Every domain value of the program is a Rust u32.  TLC's own   *)
(* integers stop at 2^31 - 1, so a u32 is kept here as its four bytes,     *)
(* least significant first: 500 is <<244, 1, 0, 0>> and 4294967295 is      *)
(* <<255, 255, 255, 255>>.  Dec("500") gives the bytes of a decimal        *)
(* numeral and Nat32(500) those of a TLC integer.  A value the code keeps  *)
(* below 2^31 by construction (beat_ms <= 60000, a delta-time < 2^28) is   *)
(* kept as a TLC integer.                                                  *)
(*                                                                         *)
(* Overflow.  Rust's +, -, * on u32 panic on overflow when the build has   *)
(* overflow checks on (the dev profile) and wrap modulo 2^32 when it has   *)
(* not (the release profile).  The profile is not fixed by the source, so  *)
(* it is a choice made in Init: overflow_checks.                           *)
(***************************************************************************)
EXTENDS Integers, Sequences, FiniteSets, TLC

VARIABLES doc, overflow_checks, pc, input, output, midi, output2

vars == <<doc, overflow_checks, pc, input, output, midi, output2>>

(***************************************************************************)
(* u32 arithmetic on bytes                                                 *)
(***************************************************************************)
Radix == 16 * 16

\* The bytes of TLC integer n (0 <= n < 2^31), as many as len.
RECURSIVE Bytes(_, _)
Bytes(n, len) ==
    IF len = 0 THEN <<>> ELSE <<n % Radix>> \o Bytes(n \div Radix, len - 1)

Nat32(n) == Bytes(n, 4)

\* Whether every byte of w from position i on is 0.
ZeroFrom(w, i) == \A j \in i..Len(w) : w[j] = 0

\* w without its most significant zero bytes.
RECURSIVE Strip(_)
Strip(w) ==
    IF w = <<>> \/ w[Len(w)] # 0 THEN w ELSE Strip(SubSeq(w, 1, Len(w) - 1))

\* w padded with zero bytes to len bytes.
Pad(w, len) ==
    IF Len(w) >= len THEN w ELSE w \o [j \in 1..(len - Len(w)) |-> 0]

\* a < b, for a and b of the same length.
RECURSIVE LessSame(_, _)
LessSame(a, b) ==
    IF a = <<>> THEN FALSE
    ELSE LET n == Len(a) IN
         IF a[n] # b[n] THEN a[n] < b[n]
         ELSE LessSame(SubSeq(a, 1, n - 1), SubSeq(b, 1, n - 1))

Less(a, b) ==
    LET n == IF Len(a) > Len(b) THEN Len(a) ELSE Len(b)
    IN  LessSame(Pad(a, n), Pad(b, n))

Leq(a, b) == ~Less(b, a)

\* The value of w as a TLC integer; w must be below 2^31.
RECURSIVE ToInt(_)
ToInt(w) == IF w = <<>> THEN 0 ELSE Head(w) + Radix * ToInt(Tail(w))

FitsInt(w) == ZeroFrom(w, 5) /\ (Len(w) < 4 \/ w[4] < 128)

\* The least significant 32 bits of w, and whether w has no more than those.
Low32(w) == SubSeq(Pad(w, 4), 1, 4)
Fits32(w) == ZeroFrom(w, 5)

\* w * m + carry, exactly, for a TLC integer m < 2^22: Len(w) + 3 bytes.
RECURSIVE MulAdd(_, _, _)
MulAdd(w, m, carry) ==
    IF w = <<>> THEN Bytes(carry, 3)
    ELSE LET t == Head(w) * m + carry
         IN  <<t % Radix>> \o MulAdd(Tail(w), m, t \div Radix)

Mul(w, m) == MulAdd(w, m, 0)

\* w + n, exactly, for a TLC integer n < 2^22.
RECURSIVE AddInt(_, _)
AddInt(w, n) ==
    IF w = <<>> THEN Bytes(n, 3)
    ELSE LET t == Head(w) + n
         IN  <<t % Radix>> \o AddInt(Tail(w), t \div Radix)

\* a - b modulo Radix^Len(a), with the borrow that is left: a and b of the
\* same length.
RECURSIVE SubBorrow(_, _, _)
SubBorrow(a, b, borrow) ==
    IF a = <<>> THEN [bytes |-> <<>>, borrow |-> borrow]
    ELSE LET t    == Head(a) - Head(b) - borrow
             rest == SubBorrow(Tail(a), Tail(b), IF t < 0 THEN 1 ELSE 0)
         IN  [bytes  |-> <<(t + Radix) % Radix>> \o rest.bytes,
              borrow |-> rest.borrow]

\* Quotient and remainder of w by a TLC integer d, 0 < d < 2^22.
RECURSIVE DivRem(_, _)
DivRem(w, d) ==
    IF w = <<>> THEN [q |-> <<>>, r |-> 0]
    ELSE LET hi == DivRem(Tail(w), d)
             t  == hi.r * Radix + Head(w)
         IN  [q |-> <<t \div d>> \o hi.q, r |-> t % d]

\* floor(a / b) for u32 a and b, b # 0.  A divisor of 2^22 or more leaves a
\* quotient below 2^10, found by trial.
Div32(a, b) ==
    IF ZeroFrom(b, 4) /\ b[3] < 64
    THEN DivRem(a, ToInt(b)).q
    ELSE Nat32(CHOOSE q \in 0..1023 :
                   /\ Leq(Mul(b, q), a)
                   /\ Less(a, Mul(b, q + 1)))

(***************************************************************************)
(* parse: text -> Input | ParseError                                       *)
(***************************************************************************)
IsDelimiter(c) == c = " " \/ c = "\n"

\* s.split([' ', '\n']): the pieces between delimiters, empty ones kept; a
\* text without a delimiter (the empty text too) is one piece.
RECURSIVE split(_)
split(s) ==
    IF \A k \in 1..Len(s) : ~IsDelimiter(SubSeq(s, k, k)) THEN <<s>>
    ELSE LET k == CHOOSE i \in 1..Len(s) :
                      /\ IsDelimiter(SubSeq(s, i, i))
                      /\ \A j \in 1..(i - 1) : ~IsDelimiter(SubSeq(s, j, j))
         IN  <<SubSeq(s, 1, k - 1)>> \o split(SubSeq(s, k + 1, Len(s)))

\* char::to_digit(10): the digit's value, or -1.
to_digit(c) ==
    CASE c = "0" -> 0 [] c = "1" -> 1 [] c = "2" -> 2 [] c = "3" -> 3
      [] c = "4" -> 4 [] c = "5" -> 5 [] c = "6" -> 6 [] c = "7" -> 7
      [] c = "8" -> 8 [] c = "9" -> 9 [] OTHER -> -1

\* The digits of s from position i on, folded into acc: result * 10 + digit,
\* each step checked against the u32 range.
RECURSIVE from_digits(_, _, _)
from_digits(s, i, acc) ==
    IF i > Len(s) THEN [ok |-> TRUE, value |-> acc]
    ELSE LET d    == to_digit(SubSeq(s, i, i))
             next == IF d < 0 THEN <<>> ELSE MulAdd(acc, 10, d)
         IN  IF d < 0 \/ ~Fits32(next) THEN [ok |-> FALSE, value |-> <<>>]
             ELSE from_digits(s, i + 1, Low32(next))

\* str::parse::<u32>: an optional "+", then one digit or more, no other
\* character, and a value of at most 2^32 - 1.
parse_u32(s) ==
    LET start == IF Len(s) > 0 /\ SubSeq(s, 1, 1) = "+" THEN 2 ELSE 1
    IN  IF start > Len(s) THEN [ok |-> FALSE, value |-> <<>>]
        ELSE from_digits(s, start, Nat32(0))

\* The u32 a decimal numeral stands for.
Dec(s) == parse_u32(s).value

Err(e) == [tag |-> "Err", err |-> e]
Ok(v) == [tag |-> "Ok", value |-> v]

\* Mutants of the keys loop: one that passes over a token that is no u32,
\* one that does not pass over an empty token.
RECURSIVE parse_keys_lenient(_, _, _)
parse_keys_lenient(tokens, i, keys) ==
    IF i > Len(tokens) THEN Ok(keys)
    ELSE LET key == parse_u32(tokens[i])
         IN  IF ~key.ok THEN parse_keys_lenient(tokens, i + 1, keys)
             ELSE parse_keys_lenient(tokens, i + 1, Append(keys, key.value))

RECURSIVE parse_keys_strict(_, _, _)
parse_keys_strict(tokens, i, keys) ==
    IF i > Len(tokens) THEN Ok(keys)
    ELSE LET key == parse_u32(tokens[i])
         IN  IF ~key.ok THEN Err("BadKey")
             ELSE parse_keys_strict(tokens, i + 1, Append(keys, key.value))

\* The keys loop: every token from position i on, empty ones skipped, the
\* first one that is no u32 ending the parse.
RECURSIVE parse_keys(_, _, _)
parse_keys(tokens, i, keys) ==
    IF i > Len(tokens) THEN Ok(keys)
    ELSE IF tokens[i] = "" THEN parse_keys(tokens, i + 1, keys)
    ELSE LET key == parse_u32(tokens[i])
         IN  IF ~key.ok THEN Err("BadKey")
             ELSE parse_keys(tokens, i + 1, Append(keys, key.value))

Magic == "naive-rhythm"
Keyword == "bmp"

parse(s) ==
    LET tokens == split(s)
    IN  IF Len(tokens) < 1 THEN Err("BadMagic")
        ELSE IF Magic # tokens[1] THEN Err("BadMagic")
        ELSE IF Len(tokens) < 2 THEN Err("BadBmp")
        ELSE IF Keyword # tokens[2] THEN Err("BadBmp")
        ELSE IF Len(tokens) < 3 THEN Err("BadBmp")
        ELSE LET bmp == parse_u32(tokens[3])
             IN  IF ~bmp.ok THEN Err("BadBmp")
                 ELSE LET keys == parse_keys(tokens, 4, <<>>)
                      IN  IF keys.tag = "Err" THEN keys
                          ELSE Ok([bmp |-> bmp.value, keys |-> keys.value])

(***************************************************************************)
(* Rust's u32 +, * and -: the wrapped result, and whether it overflowed.   *)
(***************************************************************************)
add_u32(a, n) ==
    LET t == AddInt(a, n) IN [value |-> Low32(t), overflow |-> ~Fits32(t)]

mul_u32(a, m) ==
    LET t == Mul(a, m) IN [value |-> Low32(t), overflow |-> ~Fits32(t)]

sub_u32(a, b) ==
    LET t == SubBorrow(a, b, 0) IN [value |-> t.bytes, overflow |-> t.borrow = 1]

Panic(why) == [tag |-> "Panic", why |-> why]

(***************************************************************************)
(* solve: Input -> Output                                                  *)
(***************************************************************************)
\* Mutants of the comparison: a tie going up, and the two sides exchanged.
choose_lower_strict(down, up) == Less(down, up)
choose_lower_swapped(down, up) == Leq(up, down)

\* The comparison of the closure: the distance down against the distance up.
choose_lower(down, up) == Leq(down, up)

\* The closure of the map: the beat a key goes to, and whether any of its
\* operations overflowed.  beat_ms is a TLC integer, 1..60000.
map_key(key, beat_ms) ==
    LET ans_0 == DivRem(key, beat_ms).q
        ans_1 == add_u32(ans_0, 1)
        lo    == mul_u32(ans_0, beat_ms)
        down  == sub_u32(key, lo.value)
        hi    == mul_u32(ans_1.value, beat_ms)
        up    == sub_u32(hi.value, key)
    IN  [value    |-> IF choose_lower(down.value, up.value)
                      THEN ans_0 ELSE ans_1.value,
         overflow |-> \/ ans_1.overflow \/ lo.overflow \/ down.overflow
                      \/ hi.overflow \/ up.overflow]

\* beat.sort_unstable(): s with x put before the first element above it.
RECURSIVE insert(_, _)
insert(s, x) ==
    IF s = <<>> THEN <<x>>
    ELSE IF Less(x, Head(s)) THEN <<x>> \o s
    ELSE <<Head(s)>> \o insert(Tail(s), x)

RECURSIVE sort_unstable(_)
sort_unstable(s) ==
    IF s = <<>> THEN <<>> ELSE insert(sort_unstable(Tail(s)), Head(s))

\* Mutant of the filter: every element stays.
dedup_none(s) == s

\* The filter with its `last`: an element stays unless it equals the one
\* before it.
dedup(s) ==
    LET keep == {i \in 1..Len(s) : i = 1 \/ s[i] # s[i - 1]}
        nth(k) == CHOOSE i \in keep : Cardinality({j \in keep : j < i}) = k - 1
    IN  [k \in 1..Cardinality(keep) |-> s[nth(k)]]

BeatMs(bmp) == ToInt(Div32(Nat32(60000), bmp))

solve(inp, checks) ==
    IF inp.bmp = Nat32(0) THEN Panic("attempt to divide by zero")
    ELSE LET beat_ms == BeatMs(inp.bmp)
             keys    == inp.keys
         IN  IF keys # <<>> /\ beat_ms = 0
             THEN Panic("attempt to divide by zero")
             ELSE LET mapped == [i \in 1..Len(keys) |-> map_key(keys[i], beat_ms)]
                      beat   == [i \in 1..Len(keys) |-> mapped[i].value]
                  IN  IF checks /\ \E i \in 1..Len(keys) : mapped[i].overflow
                      THEN Panic("arithmetic overflow")
                      ELSE [tag  |-> "Output",
                            bmp  |-> inp.bmp,
                            beat |-> dedup(sort_unstable(beat))]

(***************************************************************************)
(* build: Output -> the two tracks of the Smf                              *)
(***************************************************************************)
ppq == 480
TicksFactor == 115200

\* midly's u24::new and u28::new keep the low 24 and 28 bits of a u32.
U24New(w) == ToInt(<<w[1], w[2], w[3]>>)
U28New(w) == ToInt(<<w[1], w[2], w[3], w[4] % 16>>)

\* u28::new(gap * 115200 / bmp), and whether the product overflowed.
delta_of(gap, bmp) ==
    LET prod == mul_u32(gap, TicksFactor)
    IN  [value |-> U28New(Div32(prod.value, bmp)), overflow |-> prod.overflow]

Meta(delta, message) == [delta |-> delta, kind |-> "Meta", message |-> message]
Midi(delta, message, vel) ==
    [delta |-> delta, kind |-> "Midi", channel |-> 0,
     message |-> message, key |-> 60, vel |-> vel]

track0_of(bmp) ==
    << Meta(0, <<"TrackName", <<>>>>),
       Meta(0, <<"TimeSignature", 4, 2, 24, 8>>),
       Meta(0, <<"Tempo", U24New(Div32(Nat32(60000000), bmp))>>),
       Meta(0, <<"EndOfTrack">>) >>

\* The gap of beats the note-off of index i (from 0) waits.
off_delta_of(beat, i) ==
    IF i = Len(beat) - 1 THEN [value |-> Nat32(1), overflow |-> FALSE]
    ELSE sub_u32(beat[i + 2], beat[i + 1])

\* Mutant: every note-on waits for its own beat index.
on_delta_every(beat, i) == beat[i + 1]

on_delta_of(beat, i) == IF i = 0 THEN beat[1] ELSE Nat32(0)

\* Mutant of the loop body: the note-off is not pushed.
note_pair_on_only(beat, bmp, i) ==
    [events   |-> <<Midi(delta_of(on_delta_of(beat, i), bmp).value, "NoteOn", 127)>>,
     overflow |-> delta_of(on_delta_of(beat, i), bmp).overflow]

\* The body of the loop for index i (from 0): the two events it pushes.
note_pair(beat, bmp, i) ==
    LET on  == delta_of(on_delta_of(beat, i), bmp)
        gap == off_delta_of(beat, i)
        off == delta_of(gap.value, bmp)
    IN  [events   |-> <<Midi(on.value, "NoteOn", 127), Midi(off.value, "NoteOff", 0)>>,
         overflow |-> on.overflow \/ gap.overflow \/ off.overflow]

RECURSIVE track1_from(_, _, _)
track1_from(beat, bmp, i) ==
    IF i >= Len(beat) THEN <<Meta(0, <<"EndOfTrack">>)>>
    ELSE note_pair(beat, bmp, i).events \o track1_from(beat, bmp, i + 1)

build(out, checks) ==
    IF out.bmp = Nat32(0) THEN Panic("attempt to divide by zero")
    ELSE IF checks /\ \E i \in 0..(Len(out.beat) - 1) :
                          note_pair(out.beat, out.bmp, i).overflow
    THEN Panic("arithmetic overflow")
    ELSE [tag    |-> "Ok",
          header |-> [format |-> "Parallel", timing |-> <<"Metrical", ppq>>],
          tracks |-> <<track0_of(out.bmp), track1_from(out.beat, out.bmp, 0)>>]

(***************************************************************************)
(* main: read the text, parse, solve, build.  Each `expect` of main ends   *)
(* the process on an error, and a panic ends it where it happens.          *)
(***************************************************************************)
None == [tag |-> "None"]

\* let input = parse(&input_str).expect(..)
Parse ==
    /\ pc = "read"
    /\ input' = parse(doc)
    /\ pc' = IF input'.tag = "Ok" THEN "parsed" ELSE "exit"
    /\ UNCHANGED <<doc, overflow_checks, output, midi, output2>>

\* let output = solve(input)
Solve ==
    /\ pc = "parsed"
    /\ output' = solve(input.value, overflow_checks)
    /\ pc' = IF output'.tag = "Output" THEN "solved" ELSE "panicked"
    /\ UNCHANGED <<doc, overflow_checks, input, midi, output2>>

\* let output_bin = build(output).expect(..)
Build ==
    /\ pc = "solved"
    /\ midi' = build(output, overflow_checks)
    /\ pc' = IF midi'.tag = "Ok" THEN "built" ELSE "panicked"
    /\ UNCHANGED <<doc, overflow_checks, input, output, output2>>

\* The timestamp of beat boundary b, b * beat_ms, exactly.
boundary(b, bmp) == Mul(b, BeatMs(bmp))

\* A second run of solve, on the boundary timestamps of the beats the
\* first run returned, at the same tempo.  The timestamps are u32 keys, so
\* the run exists only when each boundary is below 2^32.
Requantize ==
    /\ pc = "solved"
    /\ \A i \in 1..Len(output.beat) : Fits32(boundary(output.beat[i], output.bmp))
    /\ output2' = solve([bmp  |-> output.bmp,
                         keys |-> [i \in 1..Len(output.beat) |->
                                      Low32(boundary(output.beat[i], output.bmp))]],
                        overflow_checks)
    /\ pc' = "requantized"
    /\ UNCHANGED <<doc, overflow_checks, input, output, midi>>

(***************************************************************************)
(* The texts main is run on                                                *)
(***************************************************************************)
MaxTokens == 5
MaxKeys == 3

\* tokens joined by the delimiter sep.
RECURSIVE Join(_, _)
Join(tokens, sep) ==
    IF tokens = <<>> THEN ""
    ELSE IF Len(tokens) = 1 THEN tokens[1]
    ELSE tokens[1] \o sep \o Join(Tail(tokens), sep)

\* Every sequence over S of at most n elements.
RECURSIVE SeqsUpTo(_, _)
SeqsUpTo(S, n) ==
    IF n = 0 THEN {<<>>}
    ELSE LET shorter == SeqsUpTo(S, n - 1)
         IN  shorter \cup {Append(q, x) : q \in {r \in shorter : Len(r) = n - 1}, x \in S}

\* Texts of any shape: up to MaxTokens tokens, empty and malformed ones among
\* them, on one line or one per line.
Tokens == {"", "naive-rhythm", "bmp", "bpm", "120", "abc"}

TokenTexts ==
    {Join(t, sep) : t \in SeqsUpTo(Tokens, MaxTokens) \ {<<>>}, sep \in {" ", "\n"}}

\* The texts of the specification's scenarios, and numerals at the edges of
\* the u32 range.
ScenarioTexts ==
    { "naive-rhythm bpm 120\n0 250 500 750",
      "naive-rhythm bmp 120\n0 250 500 750",
      "naive-rhythm bmp 120\n0 250 500 750\n",
      "naive-rhythm 120\n0 100",
      "\nnaive-rhythm bmp 120\n0 250",
      "naive-rhythm bmp 120\n\n750  0 250\n",
      "naive-rhythm bmp 4294967295",
      "naive-rhythm bmp 4294967296 5",
      "naive-rhythm bmp 120 4294967295 4294967296",
      "naive-rhythm bmp +120 +5 007",
      "naive-rhythm bmp 120 -1",
      "naive-rhythm bmp 120 5 +",
      "naive-rhythm bmp 0 5",
      "naive-rhythm bmp 60001 5" }

Texts == TokenTexts \cup ScenarioTexts

\* Well-formed texts: a tempo and up to MaxKeys timestamps, in any order
\* and with repeats, that reach ties, distant beats and the top of the u32
\* range.
Tempos == {"1", "7", "120", "60000", "60001"}
Timestamps ==
    {"0", "250", "750", "30300", "139860000", "2236980000", "4294967295"}

KeyTexts ==
    {"naive-rhythm bmp " \o t \o "\n" \o Join(k, " ") :
        t \in Tempos, k \in SeqsUpTo(Timestamps, MaxKeys)}

Start(texts) ==
    /\ doc \in texts
    /\ overflow_checks \in BOOLEAN
    /\ pc = "read"
    /\ input = None
    /\ output = None
    /\ midi = None
    /\ output2 = None

Init == Start(Texts)
Next == Parse \/ Solve \/ Build
Spec == Init /\ [][Next]_vars

InitSolve == Start(KeyTexts)
NextSolve == Parse \/ Solve \/ Build \/ Requantize
SpecSolve == InitSolve /\ [][NextSolve]_vars

(***************************************************************************)
(* What the claims speak of, stated apart from the code                    *)
(***************************************************************************)
IsDigit(c) == c \in {"0", "1", "2", "3", "4", "5", "6", "7", "8", "9"}

\* A base-10 unsigned integer: one digit or more, nothing else.
IsDigits(s) == Len(s) >= 1 /\ \A k \in 1..Len(s) : IsDigit(SubSeq(s, k, k))

\* A numeral without its leading zeros ("0" for zero).
RECURSIVE Canon(_)
Canon(s) ==
    IF Len(s) > 1 /\ SubSeq(s, 1, 1) = "0" THEN Canon(SubSeq(s, 2, Len(s))) ELSE s

\* The decimal numeral of a u32.
RECURSIVE ToDec(_)
ToDec(w) ==
    LET d == DivRem(w, 10)
        c == SubSeq("0123456789", d.r + 1, d.r + 1)
    IN  IF ZeroFrom(d.q, 1) THEN c ELSE ToDec(d.q) \o c

\* a <= b for numerals of the same length.
RECURSIVE NumeralLeq(_, _)
NumeralLeq(a, b) ==
    IF Len(a) = 0 THEN TRUE
    ELSE LET x == to_digit(SubSeq(a, 1, 1))
             y == to_digit(SubSeq(b, 1, 1))
         IN  IF x # y THEN x < y
             ELSE NumeralLeq(SubSeq(a, 2, Len(a)), SubSeq(b, 2, Len(b)))

\* A base-10 unsigned integer of at most 2^32 - 1.
IsU32Digits(s) ==
    /\ IsDigits(s)
    /\ \/ Len(Canon(s)) < 10
       \/ Len(Canon(s)) = 10 /\ NumeralLeq(Canon(s), "4294967295")

\* What str::parse::<u32> takes: such an integer, after an optional "+".
IsU32Token(s) ==
    \/ IsU32Digits(s)
    \/ Len(s) > 1 /\ SubSeq(s, 1, 1) = "+" /\ IsU32Digits(SubSeq(s, 2, Len(s)))

Unsigned(s) == IF SubSeq(s, 1, 1) = "+" THEN SubSeq(s, 2, Len(s)) ELSE s

NonEmpty(tokens) == SelectSeq(tokens, LAMBDA t : t # "")

KeyTokens(tokens) == NonEmpty(SubSeq(tokens, 4, Len(tokens)))

\* A document of the grammar with keyword kw: the magic, kw, a tempo and
\* then only timestamps, each number satisfying IsNumber.
WellFormed(tokens, kw, IsNumber(_)) ==
    /\ Len(tokens) >= 3
    /\ tokens[1] = "naive-rhythm"
    /\ tokens[2] = kw
    /\ IsNumber(tokens[3])
    /\ \A i \in 4..Len(tokens) : tokens[i] = "" \/ IsNumber(tokens[i])

\* The Input holds the numbers of the tokens: tempo from token 2, keys from
\* the tokens after it, in document order.
HoldsTokens(res, tokens) ==
    /\ res.tag = "Ok"
    /\ ToDec(res.value.bmp) = Canon(Unsigned(tokens[3]))
    /\ Len(res.value.keys) = Len(KeyTokens(tokens))
    /\ \A i \in 1..Len(res.value.keys) :
           ToDec(res.value.keys[i]) = Canon(Unsigned(KeyTokens(tokens)[i]))

ScenarioOk(text) ==
    doc = text =>
        /\ pc # "read" =>
               /\ pc \in {"parsed", "solved", "built"}
               /\ input.value = [bmp  |-> Nat32(120),
                                 keys |-> <<Nat32(0), Nat32(250), Nat32(500), Nat32(750)>>]
        /\ pc \in {"solved", "built"} => output.beat = <<Nat32(0), Nat32(1)>>

\* C3 as claimed, keyword "bpm" and integers of any size: parse accepts every
\* document whose tokens are the magic, "bpm", an unsigned integer and then
\* unsigned integers, the Input holds them in order, and the scenario text
\* "naive-rhythm bpm 120\n0 250 500 750" gives tempo 120, keys
\* [0, 250, 500, 750] and beat [0, 1].
C3_AsClaimed ==
    /\ pc # "read" /\ WellFormed(split(doc), "bpm", IsDigits)
           => HoldsTokens(input, split(doc))
    /\ ScenarioOk("naive-rhythm bpm 120\n0 250 500 750")

\* The error the first offending token calls for, "" when no token offends.
ExpectedError(tokens) ==
    IF tokens[1] # "naive-rhythm" THEN "BadMagic"
    ELSE IF Len(tokens) < 2 \/ tokens[2] # Keyword THEN "BadBmp"
    ELSE IF Len(tokens) < 3 \/ ~IsU32Token(tokens[3]) THEN "BadBmp"
    ELSE IF \E i \in 4..Len(tokens) : tokens[i] # "" /\ ~IsU32Token(tokens[i])
         THEN "BadKey"
    ELSE ""

\* C4: when a token offends, parse fails with the error of the first
\* offending token in document order (a wrong first token: BadMagic; a
\* missing or wrong keyword, a missing tempo or one that is no unsigned
\* integer: BadBmp; a later non-empty token that is no unsigned integer:
\* BadKey) and no Input is returned, so main goes no further; the text
\* "naive-rhythm 120\n0 100" fails with BadBmp.
C4_TypedError ==
    pc # "read" =>
        LET want == ExpectedError(split(doc))
        IN  /\ want # "" => input = Err(want) /\ pc = "exit"
            /\ want = "" => input.tag = "Ok"
            /\ doc = "naive-rhythm 120\n0 100" => input = Err("BadBmp")

C4_Witness ==
    /\ pc = "exit"
    /\ input = Err("BadKey")
    /\ Len(split(doc)) >= 5
    /\ IsU32Token(split(doc)[4])

\* The tokens with the empty ones after the tempo (position 3) left out.
DropEmptyKeys(tokens) ==
    IF Len(tokens) <= 3 THEN tokens
    ELSE SubSeq(tokens, 1, 3) \o NonEmpty(SubSeq(tokens, 4, Len(tokens)))

\* C7 as claimed: empty tokens are skipped wherever they occur, so a document
\* parses to what the document without its empty tokens parses to.
C7_AsClaimed ==
    pc # "read" => input = parse(Join(NonEmpty(split(doc)), " "))

\* C7, amended: empty tokens are skipped among the timestamps only, after
\* the tempo token: a document parses to what it parses to with those empty
\* tokens removed.  An empty token is not skipped before the magic (it is
\* BadMagic) nor between the magic and the keyword or between the keyword
\* and the tempo (it is BadBmp).
C7_SkipsEmptyKeys ==
    pc # "read" =>
        LET tokens == split(doc)
        IN  /\ input = parse(Join(DropEmptyKeys(tokens), " "))
            /\ tokens[1] = "" => input = Err("BadMagic")
            /\ /\ tokens[1] = "naive-rhythm"
               /\ \E i \in 2..3 : i <= Len(tokens) /\ tokens[i] = ""
               => input = Err("BadBmp")

C7_Witness ==
    /\ pc = "parsed"
    /\ \E i \in 4..(Len(split(doc)) - 1) : split(doc)[i] = ""
    /\ Len(input.value.keys) >= 1

(***************************************************************************)
(* Claims about solve and build, in exact arithmetic                       *)
(***************************************************************************)
\* tempo in 1..=60000
TempoInRange(bmp) == Leq(Nat32(1), bmp) /\ Leq(bmp, Nat32(60000))

\* a - b exactly, for a >= b.
ExactSub(a, b) == SubBorrow(Pad(a, 12), Pad(b, 12), 0).bytes

Same(a, b) == Strip(a) = Strip(b)

\* lower = floor(t / p): lower * p <= t < (lower + 1) * p.
IsFloor(lower, t, p) ==
    Leq(Mul(lower, p), t) /\ Less(t, Mul(AddInt(lower, 1), p))

Lower(t, p) == DivRem(t, p).q
Upper(t, p) == AddInt(Lower(t, p), 1)
Down(t, p) == ExactSub(t, Mul(Lower(t, p), p))
Up(t, p) == ExactSub(Mul(Upper(t, p), p), t)

\* The nearest beat boundary of t, a tie going to the lower one.
Rounded(t, p) == IF Leq(Down(t, p), Up(t, p)) THEN Lower(t, p) ELSE Upper(t, p)

StrictlyIncreasing(beat) ==
    \A i \in 1..(Len(beat) - 1) : Less(beat[i], beat[i + 1])

\* C1: for a tempo in 1..=60000 and any keys (empty, unordered, repeated),
\* the beat sequence solve returns is strictly increasing, so holds no value
\* twice.  Both runs of solve are covered.
C1_StrictlyIncreasing ==
    /\ output.tag = "Output" /\ TempoInRange(output.bmp)
           => StrictlyIncreasing(output.beat)
    /\ output2.tag = "Output" /\ TempoInRange(output2.bmp)
           => StrictlyIncreasing(output2.beat)

C1_Witness ==
    /\ pc = "solved"
    /\ TempoInRange(output.bmp)
    /\ Len(input.value.keys) = 3
    /\ Less(input.value.keys[2], input.value.keys[1])
    /\ input.value.keys[3] = input.value.keys[1]
    /\ Len(output.beat) = 2

\* C2: with period = floor(60000 / tempo), the beat sequence solve returns
\* holds exactly the rounded values of the keys, each key t rounded to
\* lower = floor(t / period) when t - lower * period <= (lower + 1) * period - t
\* and to lower + 1 otherwise.
C2_NearestBeat ==
    output.tag = "Output" /\ TempoInRange(output.bmp) =>
        LET p    == BeatMs(output.bmp)
            keys == input.value.keys
        IN  /\ \A i \in 1..Len(keys) : IsFloor(Lower(keys[i], p), keys[i], p)
            /\ \A i \in 1..Len(keys) :
                   \E j \in 1..Len(output.beat) :
                       Same(output.beat[j], Rounded(keys[i], p))
            /\ \A j \in 1..Len(output.beat) :
                   \E i \in 1..Len(keys) :
                       Same(output.beat[j], Rounded(keys[i], p))

C2_Witness ==
    /\ pc = "solved"
    /\ TempoInRange(output.bmp)
    /\ LET p    == BeatMs(output.bmp)
           keys == input.value.keys
       IN  /\ \E i \in 1..Len(keys) :
                  /\ Same(Down(keys[i], p), Up(keys[i], p))
                  /\ \E j \in 1..Len(output.beat) : output.beat[j] = Lower(keys[i], p)
           /\ \E i \in 1..Len(keys) :
                  /\ Less(Up(keys[i], p), Down(keys[i], p))
                  /\ \E j \in 1..Len(output.beat) :
                         Same(output.beat[j], Upper(keys[i], p))

\* C8: for a tempo in 1..=60000 and the beats B a run of solve returned, the
\* run of solve on the keys [b * floor(60000 / tempo) : b in B] at the same
\* tempo returns exactly B.
C8_Idempotent ==
    /\ pc = "requantized"
    /\ TempoInRange(output.bmp)
    /\ output2.tag = "Output"
    => output2.beat = output.beat /\ output2.bmp = output.bmp

C8_Witness ==
    /\ pc = "requantized"
    /\ TempoInRange(output.bmp)
    /\ output2.tag = "Output"
    /\ Len(output.beat) = 3
    /\ \E i \in 1..3 :
           ~Same(input.value.keys[i], boundary(output.beat[i], output.bmp))

\* C9 as claimed: for a tempo in 1..=60000 and any u32 keys, solve returns
\* an Output, and for every key lower * period, (lower + 1) * period,
\* t - lower * period and (lower + 1) * period - t are within the u32 range.
C9_AsClaimed ==
    output.tag # "None" /\ TempoInRange(input.value.bmp) =>
        LET p    == BeatMs(input.value.bmp)
            keys == input.value.keys
        IN  /\ output.tag = "Output"
            /\ \A i \in 1..Len(keys) :
                   /\ Fits32(Upper(keys[i], p))
                   /\ Fits32(Mul(Lower(keys[i], p), p))
                   /\ Fits32(Mul(Upper(keys[i], p), p))
                   /\ Leq(Mul(Lower(keys[i], p), p), keys[i])
                   /\ Leq(keys[i], Mul(Upper(keys[i], p), p))

\* floor(gap * 115200 / tempo), exactly, for a tempo below 2^22.
ExactTicks(gap, bmp) == DivRem(Mul(gap, TicksFactor), ToInt(bmp)).q

\* What the code stores for a gap: the product taken modulo 2^32, divided
\* by the tempo, and the low 28 bits of the quotient.
StoredTicks(gap, bmp) ==
    LET q == Div32(Low32(Mul(gap, TicksFactor)), bmp)
    IN  ToInt(<<q[1], q[2], q[3], q[4] % 16>>)

\* The gap between beat i + 1 and beat i (from 1), exactly.
Gap(beat, i) == Low32(ExactSub(beat[i + 1], beat[i]))

\* C10 as claimed: for every Output solve returns with a tempo in 1..=60000,
\* build returns, and the delta-time of every non-final note event (the first
\* note-on, and each note-off but the last) is floor(gap * 115200 / tempo)
\* exactly, with no bit lost.
C10_AsClaimed ==
    midi.tag # "None" /\ TempoInRange(output.bmp) =>
        /\ midi.tag = "Ok"
        /\ LET t == midi.tracks[2]
               n == Len(output.beat)
           IN  /\ n > 0 => Same(Nat32(t[1].delta), ExactTicks(output.beat[1], output.bmp))
               /\ \A i \in 1..(n - 1) :
                      Same(Nat32(t[2 * i].delta),
                           ExactTicks(Gap(output.beat, i), output.bmp))

\* C5 as claimed: in track 1 the first note-on has delta
\* floor(beats[0] * 115200 / tempo), every later note-on 0, the last note-off
\* exactly 1 and every other note-off floor((beats[i+1] - beats[i]) * 115200 / tempo).
C5_AsClaimed ==
    pc = "built" /\ TempoInRange(output.bmp) =>
        LET t == midi.tracks[2]
            n == Len(output.beat)
        IN  /\ n > 0 => Same(Nat32(t[1].delta), ExactTicks(output.beat[1], output.bmp))
            /\ \A i \in 2..n : t[2 * i - 1].delta = 0
            /\ n > 0 => t[2 * n].delta = 1
            /\ \A i \in 1..(n - 1) :
                   Same(Nat32(t[2 * i].delta),
                        ExactTicks(Gap(output.beat, i), output.bmp))

\* C5, amended: in track 1 the first note-on has delta
\* beats[0] * 115200 / tempo and every later note-on 0; the last note-off
\* has delta 115200 / tempo, a gap of one beat scaled like the others and not
\* the literal 1; every other note-off has delta
\* (beats[i+1] - beats[i]) * 115200 / tempo.  Each quotient is taken as the
\* code takes it: the product modulo 2^32, floor division, the low 28 bits
\* kept; it is floor(gap * 115200 / tempo) whenever gap * 115200 < 2^32 and
\* the quotient is below 2^28.
C5_Deltas ==
    pc = "built" =>
        LET t   == midi.tracks[2]
            n   == Len(output.beat)
            bmp == output.bmp
        IN  /\ n > 0 => t[1].delta = StoredTicks(output.beat[1], bmp)
            /\ \A i \in 2..n : t[2 * i - 1].delta = 0
            /\ n > 0 => t[2 * n].delta = TicksFactor \div ToInt(bmp)
            /\ \A i \in 1..(n - 1) :
                   t[2 * i].delta = StoredTicks(Gap(output.beat, i), bmp)
            /\ \A g \in {output.beat[1] : k \in 1..(IF n > 0 THEN 1 ELSE 0)}
                      \cup {Gap(output.beat, i) : i \in 1..(n - 1)} :
                   /\ Fits32(Mul(g, TicksFactor))
                   /\ Less(ExactTicks(g, bmp), <<0, 0, 0, 16>>)
                   => Same(Nat32(StoredTicks(g, bmp)), ExactTicks(g, bmp))

C5_Witness ==
    /\ pc = "built"
    /\ Len(output.beat) = 3
    /\ output.beat[1] # Nat32(0)
    /\ midi.tracks[2][1].delta > 0
    /\ midi.tracks[2][6].delta > 1
    /\ midi.tracks[2][2].delta # midi.tracks[2][4].delta

Kinds(track) == [i \in 1..Len(track) |->
                    IF track[i].kind = "Meta" THEN track[i].message[1]
                    ELSE track[i].message]

\* C6: for every Output with tempo > 0 build gives exactly two tracks; track
\* 0 is track-name, time-signature, tempo, end-of-track, each at delta 0;
\* track 1 is len(beats) note-on/note-off pairs and then one end-of-track,
\* 2 * len(beats) + 1 events; with no beats build returns and track 1 is the
\* end-of-track alone.
C6_TwoTracks ==
    /\ pc = "built" =>
           LET n == Len(output.beat)
           IN  /\ Len(midi.tracks) = 2
               /\ Kinds(midi.tracks[1]) =
                      <<"TrackName", "TimeSignature", "Tempo", "EndOfTrack">>
               /\ \A i \in 1..4 : midi.tracks[1][i].delta = 0
               /\ Len(midi.tracks[2]) = 2 * n + 1
               /\ \A i \in 1..n :
                      /\ Kinds(midi.tracks[2])[2 * i - 1] = "NoteOn"
                      /\ Kinds(midi.tracks[2])[2 * i] = "NoteOff"
               /\ midi.tracks[2][2 * n + 1] = Meta(0, <<"EndOfTrack">>)
    /\ midi.tag # "None" /\ output.beat = <<>> =>
           /\ pc = "built"
           /\ midi.tracks[2] = <<Meta(0, <<"EndOfTrack">>)>>

C6_Witness ==
    /\ pc = "built"
    /\ Len(output.beat) = 3
    /\ Len(midi.tracks[2]) = 7

====
